---- MODULE Spec2Model ----
(***************************************************************************)
(* Verification model of the shaft and gear calculation engine             *)
(* (ShaftGear/modules/shaft_calculations.py, gear_calculations.py,         *)
(* utils.py, material_database.py, export_utils.py).                       *)
(*                                                                         *)
(* Numbers.  The program computes with Python floats (binary64).  TLC has  *)
(* 32-bit integers only, so a float is modelled as a binary floating-point *)
(* number with a 15-bit significand: the record [m |-> m, e |-> e] stands  *)
(* for m * 2^e, normalised so that MantLo <= |m| < MantHi, or m = 0 and    *)
(* e = 0.  Every operation rounds its exact result to nearest, ties to     *)
(* even, as IEEE-754 does; only the significand is shorter (15 bits        *)
(* instead of 53) and the exponent range is unbounded.  Decimal literals   *)
(* of the source (0.1, 310e6, math.pi) are rounded to that precision,      *)
(* just as Python rounds them to 53 bits.  float('inf') is the value Inf.  *)
(* An exception raised by the code is a result with tag "raise".           *)
(***************************************************************************)
EXTENDS Integers, Sequences, FiniteSets, TLC

---------------------------------------------------------------------------
(* Binary floating point, round to nearest even.                          *)

MantLo == 2^14
MantHi == 2^15
InfExp == 2^20

Zero == [m |-> 0, e |-> 0]
Inf == [m |-> 1, e |-> InfExp]

IAbs(n) == IF n < 0 THEN -n ELSE n

\* Number of binary digits of n > 0.
RECURSIVE BitLen(_)
BitLen(n) == IF n = 0 THEN 0 ELSE 1 + BitLen(n \div 2)

\* Round the magnitude M * 2^E (M >= 0 exact but for a discarded positive
\* tail when sticky is TRUE) to a normalised float of sign sg.
RoundMag(sg, M, E, sticky) ==
    IF M = 0 THEN Zero
    ELSE LET k == BitLen(M) - 15
         IN IF k <= 0
            THEN [m |-> sg * M * 2^(-k), e |-> E + k]
            ELSE LET D == 2^k
                     q == M \div D
                     r == M % D
                     up == \/ 2 * r > D
                           \/ 2 * r = D /\ (sticky \/ q % 2 = 1)
                     q1 == IF up THEN q + 1 ELSE q
                 IN IF q1 = MantHi
                    THEN [m |-> sg * MantLo, e |-> E + k + 1]
                    ELSE [m |-> sg * q1, e |-> E + k]

Sign(n) == IF n < 0 THEN -1 ELSE 1

\* float(n) for an integer literal n of the source.
FromInt(n) == RoundMag(Sign(n), IAbs(n), 0, FALSE)

IsInf(a) == a.e = InfExp
IsZero(a) == a.m = 0

FNeg(a) == [m |-> -a.m, e |-> a.e]

\* a + b
FAdd(a, b) ==
    IF IsZero(a) THEN b
    ELSE IF IsZero(b) THEN a
    ELSE IF IsInf(a) THEN a
    ELSE IF IsInf(b) THEN b
    ELSE LET hi == IF a.e >= b.e THEN a ELSE b
             lo == IF a.e >= b.e THEN b ELSE a
             d == hi.e - lo.e
         IN IF d >= 17 THEN hi
            ELSE LET s == hi.m * 2^d + lo.m
                 IN RoundMag(Sign(s), IAbs(s), lo.e, FALSE)

FSub(a, b) == FAdd(a, FNeg(b))

\* a * b
FMul(a, b) ==
    IF IsZero(a) \/ IsZero(b) THEN Zero
    ELSE IF IsInf(a) \/ IsInf(b)
         THEN [m |-> Sign(a.m) * Sign(b.m), e |-> InfExp]
    ELSE RoundMag(Sign(a.m) * Sign(b.m), IAbs(a.m) * IAbs(b.m), a.e + b.e, FALSE)

\* a / b for b # 0 (the callers raise ZeroDivisionError before dividing by 0).
FDiv(a, b) ==
    IF IsZero(a) THEN Zero
    ELSE IF IsInf(b) THEN Zero
    ELSE IF IsInf(a) THEN [m |-> Sign(a.m) * Sign(b.m), e |-> InfExp]
    ELSE LET n == IAbs(a.m) * 2^16
             q == n \div IAbs(b.m)
             r == n % IAbs(b.m)
         IN RoundMag(Sign(a.m) * Sign(b.m), q, a.e - b.e - 16, r # 0)

\* a < b
FLt(a, b) ==
    IF a.m <= 0 /\ b.m <= 0
    THEN IF a.m = 0 \/ b.m = 0 THEN a.m < b.m
         ELSE IF a.e # b.e THEN a.e > b.e ELSE a.m < b.m
    ELSE IF a.m <= 0 \/ b.m <= 0
         THEN a.m < b.m
    ELSE IF a.e # b.e THEN a.e < b.e ELSE a.m < b.m

FLe(a, b) == a = b \/ FLt(a, b)
FGt(a, b) == FLt(b, a)
FGe(a, b) == FLe(b, a)

\* Largest r with r * r <= n, for 0 <= n < 2^31, one binary digit at a time.
RECURSIVE SqrtBits(_, _, _)
SqrtBits(n, r, bit) ==
    IF bit = 0 THEN r
    ELSE LET t == r + bit
         IN IF t <= 46340 /\ t * t <= n
            THEN SqrtBits(n, t, bit \div 2)
            ELSE SqrtBits(n, r, bit \div 2)

ISqrt(n) == SqrtBits(n, 0, MantHi)

\* math.sqrt(a) for a >= 0, correctly rounded.
FSqrt(a) ==
    IF IsZero(a) \/ IsInf(a) THEN a
    ELSE LET k == IF a.e % 2 = 0 THEN 16 ELSE 15
             n == a.m * 2^k
             r == ISqrt(n)
             rem == n - r * r
         IN IF r >= MantHi
            THEN RoundMag(1, r, (a.e - k) \div 2, rem # 0)
            ELSE IF rem > r
                 THEN RoundMag(1, r + 1, (a.e - k) \div 2, FALSE)
                 ELSE [m |-> r, e |-> (a.e - k) \div 2]

\* floor(n * 2^steps / t) and the remainder, by long division, for 0 <= rem < t
\* < 2^15; the quotient saturates at 2^30 or more.
RECURSIVE DivSteps(_, _, _, _)
DivSteps(q, rem, t, steps) ==
    IF steps = 0 \/ q >= 2^30 THEN <<q, rem>>
    ELSE IF 2 * rem >= t
         THEN DivSteps(2 * q + 1, 2 * rem - t, t, steps - 1)
         ELSE DivSteps(2 * q, 2 * rem, t, steps - 1)

\* t^3 <= n * 2^sh, for MantLo <= t, n < MantHi.
CubeLe(t, n, sh) == t * t <= DivSteps(n \div t, n % t, t, sh)[1]

\* Largest r with r^3 <= n * 2^sh, one binary digit at a time.
RECURSIVE CbrtBits(_, _, _, _)
CbrtBits(n, sh, r, bit) ==
    IF bit = 0 THEN r
    ELSE IF CubeLe(r + bit, n, sh)
         THEN CbrtBits(n, sh, r + bit, bit \div 2)
         ELSE CbrtBits(n, sh, r, bit \div 2)

\* a ** (1/3) for a > 0: the cube root, correctly rounded.
FCbrt(a) ==
    IF IsZero(a) \/ IsInf(a) THEN a
    ELSE LET sh == 28 + ((a.e - 28) % 3)
             g == (a.e - sh) \div 3
             r == CbrtBits(a.m, sh, 0, MantLo)
             d == DivSteps(a.m \div r, a.m % r, r, sh)
             t == 8 * (d[1] - r * r) - 12 * r - 6
             up == t >= 1 \/ (t > -8 /\ r * t + 8 * d[2] - 1 >= 0)
         IN RoundMag(1, IF up THEN r + 1 ELSE r, g, FALSE)

\* x ** 2 and x ** 4 (each product rounded).
FSq(x) == FMul(x, x)

\* x ** 2 of a Python float raises OverflowError when the square is finite
\* in exact arithmetic but beyond the largest float (about 2^1024).
SquareOverflows(x) ==
    /\ x.m # 0
    /\ x.e # InfExp
    /\ FSq(x).e + 14 >= 1024
FPow4(x) == FMul(FMul(x, x), FMul(x, x))

\* math.pi, 0.75 and 0.1 at the model's precision.
Pi == [m |-> 25736, e |-> -13]
F075 == FDiv(FromInt(3), FromInt(4))
F01 == FDiv(FromInt(1), FromInt(10))

---------------------------------------------------------------------------
(* Results of a call: a value, or a raised exception.                     *)

Ok(x) == [tag |-> "ok", v |-> x, exc |-> "none"]
Raise(name) == [tag |-> "raise", v |-> Zero, exc |-> name]
\* A Python complex number (a negative float raised to a fractional power).
Complex == [tag |-> "complex", v |-> Zero, exc |-> "none"]
NoResult == [tag |-> "none", v |-> Zero, exc |-> "none"]

---------------------------------------------------------------------------
(* Shaft engine: shaft_calculations.py                                     *)

\* range(100), the iteration cap of the hollow-shaft search.
MaxIter == 100

\* allowable_stress = material_props['yield_strength'] / safety_factor
AllowableStress(yield_strength, safety_factor) ==
    IF IsZero(safety_factor) THEN Raise("ZeroDivisionError")
    ELSE Ok(FDiv(yield_strength, safety_factor))

\* The von Mises weighting instead: sqrt(bending_moment**2 + 0.75 * torque**2).
EquivalentMomentVonMises(torque, bending_moment) ==
    FSqrt(FAdd(FSq(bending_moment), FMul(F075, FSq(torque))))

\* equivalent_moment = math.sqrt(bending_moment**2 + (0.75 * torque)**2)
EquivalentMoment(torque, bending_moment) ==
    FSqrt(FAdd(FSq(bending_moment), FSq(FMul(F075, torque))))

\* Solid branch: ((32 * M_eq) / (pi * allowable)) ** (1/3), then * 1000.
SolidDiameter(equivalent_moment, allowable_stress) ==
    LET den == FMul(Pi, allowable_stress)
    IN IF IsZero(den) THEN Raise("ZeroDivisionError")
       ELSE LET base == FDiv(FMul(FromInt(32), equivalent_moment), den)
            IN IF base.m < 0 THEN Complex
               ELSE Ok(FMul(FCbrt(base), FromInt(1000)))

\* One evaluation of the loop body: J, section_modulus and stress of a
\* candidate outer diameter.
CandidateStress(diameter, inner_diameter, equivalent_moment) ==
    LET J == FMul(FDiv(Pi, FromInt(32)), FSub(FPow4(diameter), FPow4(inner_diameter)))
        half == FDiv(diameter, FromInt(2))
    IN IF IsZero(half) THEN Raise("ZeroDivisionError")
       ELSE LET section_modulus == FDiv(J, half)
            IN IF IsZero(section_modulus) THEN Raise("ZeroDivisionError")
               ELSE Ok(FDiv(equivalent_moment, section_modulus))

\* The guard dropped: yield_strength / equivalent_stress for every stress.
ShaftSafetyFactorUnguarded(yield_strength, equivalent_stress) ==
    IF IsZero(equivalent_stress) THEN Raise("ZeroDivisionError")
    ELSE Ok(FDiv(yield_strength, equivalent_stress))

\* safety_factor = yield_strength / equivalent_stress
\*                 if equivalent_stress > 0 else float('inf')
ShaftSafetyFactor(yield_strength, equivalent_stress) ==
    IF FGt(equivalent_stress, Zero)
    THEN Ok(FDiv(yield_strength, equivalent_stress))
    ELSE Ok(Inf)

\* bending_stress = bending_moment * (outer_diameter/2) / I if I > 0 else 0,
\* for the diameters in millimetres the function is given.
SectionBendingStress(outer_mm, inner_mm, bending_moment) ==
    LET outer_diameter == FDiv(outer_mm, FromInt(1000))
        inner_diameter == FDiv(inner_mm, FromInt(1000))
        d4 == IF IsZero(inner_diameter)
              THEN FPow4(outer_diameter)
              ELSE FSub(FPow4(outer_diameter), FPow4(inner_diameter))
        I == FDiv(FMul(Pi, d4), FromInt(64))
    IN IF FGt(I, Zero)
       THEN FDiv(FMul(bending_moment, FDiv(outer_diameter, FromInt(2))), I)
       ELSE Zero

\* The normal stress weighted by one half, as in the general three-axis form.
VonMisesStressHalved(axial_stress, bending_stress, shear_stress) ==
    FSqrt(FAdd(FDiv(FSq(FAdd(axial_stress, bending_stress)), FromInt(2)),
               FMul(FromInt(3), FSq(shear_stress))))

\* equivalent_stress = math.sqrt((axial_stress + bending_stress)**2
\*                               + 3 * shear_stress**2)
VonMisesStress(axial_stress, bending_stress, shear_stress) ==
    FSqrt(FAdd(FSq(FAdd(axial_stress, bending_stress)),
               FMul(FromInt(3), FSq(shear_stress))))

\* verify_shaft_diameter(outer_diameter, inner_diameter, torque,
\* bending_moment, axial_force, material_props)
verify_shaft_diameter(outer_mm, inner_mm, torque, bending_moment, axial_force, yield_strength) ==
    LET outer_diameter == FDiv(outer_mm, FromInt(1000))
        inner_diameter == FDiv(inner_mm, FromInt(1000))
        solid == IsZero(inner_diameter)
        half == FDiv(outer_diameter, FromInt(2))
        area == IF solid
                THEN FMul(Pi, FSq(half))
                ELSE FMul(Pi, FSub(FSq(half), FSq(FDiv(inner_diameter, FromInt(2)))))
        d4 == IF solid
              THEN FPow4(outer_diameter)
              ELSE FSub(FPow4(outer_diameter), FPow4(inner_diameter))
        I == FDiv(FMul(Pi, d4), FromInt(64))
        J == FDiv(FMul(Pi, d4), FromInt(32))
        axial_stress == IF FGt(area, Zero) THEN FDiv(axial_force, area) ELSE Zero
        bending_stress == SectionBendingStress(outer_mm, inner_mm, bending_moment)
        shear_stress == IF FGt(J, Zero) THEN FDiv(FMul(torque, half), J) ELSE Zero
        equivalent_stress ==
            VonMisesStress(axial_stress, bending_stress, shear_stress)
        sf == ShaftSafetyFactor(yield_strength, equivalent_stress)
    IN [tag |-> IF \/ SquareOverflows(FAdd(axial_stress, bending_stress))
                   \/ SquareOverflows(shear_stress)
                THEN "raise" ELSE sf.tag,
        equivalent_stress |-> equivalent_stress,
        safety_factor |-> sf.v]

NoVerify == [tag |-> "none", equivalent_stress |-> Zero, safety_factor |-> Zero]

\* diameter = inner_diameter + 10  (initial guess)
InitialGuess(inner_diameter) == FAdd(inner_diameter, FromInt(10))

\* The cap off by one: a 101st pass through the loop body.
LoopContinuesOneMore(i) == i <= MaxIter

\* for _ in range(100): the loop body runs while the counter is below the cap.
LoopContinues(i) == i < MaxIter

\* if stress <= allowable_stress: break
StressOk(stress, allowable_stress) == FLe(stress, allowable_stress)

\* diameter += 0.1
NextCandidate(diameter) == FAdd(diameter, F01)

\* return diameter * 1000
ToMillimetres(diameter) == FMul(diameter, FromInt(1000))

---------------------------------------------------------------------------
(* Arguments the two entry points are called with.  The page passes        *)
(* torque, bending moment and axial force >= 0, a safety factor >= 1, an   *)
(* inner diameter in mm and a catalog material; the functions themselves   *)
(* accept any number, so the sets also hold what a direct caller can pass. *)

F1e12 == FMul(FromInt(1000000), FromInt(1000000))
F1e13 == FMul(FromInt(10), F1e12)

Torques == {Zero, FromInt(1000)}
Moments == {Zero, FromInt(500), F1e12, F1e13}
Axials == {Zero, FromInt(10000)}
Yields == {Zero, FromInt(250000000), FromInt(310000000)}
SafetyFactors == {FromInt(1), FromInt(2), Zero, FromInt(-2)}
Inners == {Zero, FromInt(20)}
Outers == {FromInt(50), FromInt(20), FromInt(10), Zero, FromInt(-50)}

NoArgs == [torque |-> Zero, bending_moment |-> Zero, axial_force |-> Zero,
           yield_strength |-> Zero, safety_factor |-> Zero,
           inner_diameter |-> Zero, outer_diameter |-> Zero]

---------------------------------------------------------------------------
(* Material table: material_database.py                                    *)

\* MATERIALS_DATABASE, one row per material in the order of the source:
\* name, yield_strength in MPa, elastic_modulus in 1e8 Pa, poisson_ratio in
\* hundredths, ultimate_strength in MPa, density, fatigue_strength in MPa,
\* hardness_hb, category.
MaterialRows ==
    << <<"AISI 1020 Steel", 250, 2000, 29, 380, 7850, 190, 111, "Carbon Steel">>,
       <<"AISI 1045 Steel", 310, 2000, 29, 565, 7850, 282, 163, "Carbon Steel">>,
       <<"AISI 4140 Steel", 415, 2000, 29, 655, 7850, 380, 197, "Alloy Steel">>,
       <<"AISI 4340 Steel", 470, 2000, 29, 745, 7850, 425, 217, "Alloy Steel">>,
       <<"AISI 316 Stainless Steel", 205, 2000, 30, 515, 8000, 240, 149,
         "Stainless Steel">>,
       <<"AISI 17-4 PH Stainless Steel", 1170, 1960, 27, 1310, 7750, 550, 388,
         "Precipitation Hardening Steel">>,
       <<"Aluminum 6061-T6", 276, 690, 33, 310, 2700, 96, 95, "Aluminum Alloy">>,
       <<"Aluminum 7075-T6", 503, 717, 33, 572, 2810, 159, 150, "Aluminum Alloy">>,
       <<"Titanium Ti-6Al-4V", 880, 1140, 32, 950, 4430, 510, 334,
         "Titanium Alloy">>,
       <<"Brass C36000", 124, 1000, 33, 310, 8500, 110, 85, "Copper Alloy">>,
       <<"Bronze C93200", 172, 1030, 34, 310, 8800, 124, 75, "Copper Alloy">>,
       <<"Cast Iron ASTM A48 Class 30", 200, 1000, 26, 207, 7200, 68, 187,
         "Cast Iron">>,
       <<"Ductile Iron ASTM A536 65-45-12", 310, 1690, 29, 448, 7100, 220, 149,
         "Cast Iron">>,
       <<"Inconel 718", 1240, 2000, 29, 1380, 8190, 620, 388, "Superalloy">>,
       <<"Tool Steel D2", 520, 2100, 27, 690, 7700, 345, 217, "Tool Steel">> >>

\* The float literal n * 1e8 (n * 5^8 * 2^8, rounded once).
FromE8(n) == RoundMag(1, n * 5^8, 8, FALSE)

\* A record with the fatigue strength left out.
MaterialRecordNoFatigue(row) ==
    [yield_strength |-> FromInt(row[2] * 1000000),
     ultimate_strength |-> FromInt(row[5] * 1000000),
     elastic_modulus |-> FromE8(row[3]),
     poisson_ratio |-> FDiv(FromInt(row[4]), FromInt(100)),
     density |-> row[6],
     hardness_hb |-> row[8],
     category |-> row[9]]

\* The dictionary of properties of one material.
MaterialRecord(row) ==
    [yield_strength |-> FromInt(row[2] * 1000000),
     ultimate_strength |-> FromInt(row[5] * 1000000),
     elastic_modulus |-> FromE8(row[3]),
     poisson_ratio |-> FDiv(FromInt(row[4]), FromInt(100)),
     density |-> row[6],
     fatigue_strength |-> FromInt(row[7] * 1000000),
     hardness_hb |-> row[8],
     category |-> row[9]]

MATERIALS_DATABASE ==
    [name \in {MaterialRows[i][1] : i \in 1..Len(MaterialRows)} |->
        MaterialRecord(MaterialRows[CHOOSE i \in 1..Len(MaterialRows) :
                                        MaterialRows[i][1] = name])]

\* The fallback being the first record of the table instead.
MaterialGetFirst(database, material_name) ==
    IF material_name \in DOMAIN database
    THEN database[material_name]
    ELSE database["AISI 1020 Steel"]

\* database.get(material_name, database['AISI 1045 Steel'])
MaterialGet(database, material_name) ==
    IF material_name \in DOMAIN database
    THEN database[material_name]
    ELSE database["AISI 1045 Steel"]

\* get_material_properties(material_name) on the table as loaded.
get_material_properties(material_name) ==
    MaterialGet(MATERIALS_DATABASE, material_name)

\* list(MATERIALS_DATABASE.keys())
get_all_materials == [i \in 1..Len(MaterialRows) |-> MaterialRows[i][1]]

---------------------------------------------------------------------------
(* Session state of the gear page.  A key that is not in st.session_state  *)
(* is a record with present = FALSE.                                       *)

NoProps ==
    [yield_strength |-> Zero, ultimate_strength |-> Zero,
     elastic_modulus |-> Zero, poisson_ratio |-> Zero, density |-> 0,
     fatigue_strength |-> Zero, hardness_hb |-> 0, category |-> "none"]

NoGearParams ==
    [present |-> FALSE, gear_type |-> "none", pinion_teeth |-> 0,
     gear_teeth |-> 0, module |-> Zero, helix_angle |-> 0,
     face_width |-> Zero, power |-> Zero, pinion_rpm |-> Zero,
     gear_ratio |-> Zero, gear_rpm |-> Zero,
     pinion_pitch_diameter |-> Zero, gear_pitch_diameter |-> Zero,
     center_distance |-> Zero, pinion_torque |-> Zero, gear_torque |-> Zero,
     pitch_line_velocity |-> Zero, pinion_material |-> "none",
     gear_material |-> "none", pinion_props |-> NoProps,
     gear_props |-> NoProps, safety_factor_bending |-> Zero,
     safety_factor_contact |-> Zero, service_factor |-> Zero,
     quality_factor |-> 0]

NoBendingResults ==
    [present |-> FALSE, pinion_bending_stress |-> Zero,
     gear_bending_stress |-> Zero, pinion_safety_bending |-> Zero,
     gear_safety_bending |-> Zero, dynamic_factor |-> Zero]

NoContactResults ==
    [present |-> FALSE, contact_stress |-> Zero,
     pinion_safety_contact |-> Zero, gear_safety_contact |-> Zero,
     elastic_coefficient |-> Zero]

---------------------------------------------------------------------------
(* Session state of the shaft page.                                        *)

\* The widgets of show_basic_shaft_design at their value= defaults; the
\* material selectbox starts at the first name of get_all_materials().
DefaultShaftForm ==
    [torque |-> FromInt(1000), bending_moment |-> FromInt(500),
     axial_force |-> Zero, shaft_length |-> FromInt(1000),
     hollow_shaft |-> FALSE, inner_diameter |-> Zero,
     design_approach |-> "Calculate required diameter",
     given_diameter |-> FromInt(50),
     selected_material |-> get_all_materials[1],
     target_safety_factor |-> FromInt(2)]

NoShaftParams ==
    [present |-> FALSE, torque |-> Zero, bending_moment |-> Zero,
     axial_force |-> Zero, shaft_length |-> Zero, outer_diameter |-> Zero,
     inner_diameter |-> Zero, material |-> "none", material_props |-> NoProps,
     target_safety_factor |-> Zero]

VARIABLES
    pc,                 \* "idle", "loop", "returned", "verified"
    call,               \* the entry point called: "none", "required", "verify"
    args,               \* its arguments
    allowable_stress,   \* locals of calculate_required_diameter
    equivalent_moment,
    diameter,
    iter,               \* the loop counter of range(100)
    evals,              \* stress evaluations performed by the search
    lastEval,           \* the candidate whose stress was evaluated last
    converged,          \* the search left the loop by break
    ret,                \* what calculate_required_diameter returned or raised
    vres,               \* what verify_shaft_diameter returned
    lewisCalls,         \* get_lewis_factor calls made: <<teeth, result>> each
    gear_params,        \* st.session_state.gear_params
    bending_results,    \* st.session_state.bending_results
    contact_results,    \* st.session_state.contact_results
    page_outcome,       \* how the last run of the gear page ended: "ok", the
                        \* exception that stopped it, or "stale" when the
                        \* parameters changed after it
    catalog,            \* the dictionary MATERIALS_DATABASE of the process
    matCalls,           \* get_material_properties calls: <<name, result>> each
    listing,            \* what get_all_materials returned last
    shaft_form,         \* widget values of show_basic_shaft_design
    shaft_params,       \* st.session_state.shaft_params
    shaft_diameter,     \* st.session_state.shaft_diameter
    stress_shown        \* what show_stress_analysis displayed in the last run

shaftVars == <<pc, call, args, allowable_stress, equivalent_moment, diameter,
               iter, evals, lastEval, converged, ret, vres>>

lewisVars == <<lewisCalls>>

gearVars == <<gear_params, bending_results, contact_results, page_outcome>>

materialVars == <<catalog, matCalls, listing>>

pageVars == <<shaft_form, shaft_params, shaft_diameter, stress_shown>>

vars == <<shaftVars, lewisVars, gearVars, materialVars, pageVars>>

ShaftInit ==
    /\ pc = "idle"
    /\ call = "none"
    /\ args = NoArgs
    /\ allowable_stress = Zero
    /\ equivalent_moment = Zero
    /\ diameter = Zero
    /\ iter = 0
    /\ evals = 0
    /\ lastEval = Zero
    /\ converged = FALSE
    /\ ret = NoResult
    /\ vres = NoVerify

LewisInit == lewisCalls = <<>>

GearInit ==
    /\ gear_params = NoGearParams
    /\ bending_results = NoBendingResults
    /\ contact_results = NoContactResults
    /\ page_outcome = "stale"

MaterialInit ==
    /\ catalog = MATERIALS_DATABASE
    /\ matCalls = <<>>
    /\ listing = <<>>

\* A new session: every widget at its default value, nothing stored.
PageInit ==
    /\ shaft_form = DefaultShaftForm
    /\ shaft_params = NoShaftParams
    /\ shaft_diameter = NoResult
    /\ stress_shown = NoVerify

Init == ShaftInit /\ LewisInit /\ GearInit /\ MaterialInit /\ PageInit

\* calculate_required_diameter, from its entry to the solid-shaft return or
\* to the head of the hollow-shaft loop.
CallRequiredDiameter ==
    /\ pc = "idle"
    /\ \E t \in Torques, b \in Moments, a \in Axials, y \in Yields,
          s \in SafetyFactors, i \in Inners :
         LET al == AllowableStress(y, s)
             me == EquivalentMoment(t, b)
         IN /\ args' = [torque |-> t, bending_moment |-> b, axial_force |-> a,
                        yield_strength |-> y, safety_factor |-> s,
                        inner_diameter |-> i, outer_diameter |-> Zero]
            /\ call' = "required"
            /\ IF al.tag = "raise"
               THEN /\ ret' = al
                    /\ pc' = "returned"
                    /\ UNCHANGED <<allowable_stress, equivalent_moment, diameter>>
               ELSE /\ allowable_stress' = al.v
                    /\ equivalent_moment' = me
                    /\ IF IsZero(i)
                       THEN /\ ret' = SolidDiameter(me, al.v)
                            /\ pc' = "returned"
                            /\ UNCHANGED diameter
                       ELSE /\ diameter' = InitialGuess(i)
                            /\ pc' = "loop"
                            /\ UNCHANGED ret
    /\ UNCHANGED <<iter, evals, lastEval, converged, vres>>
    /\ UNCHANGED <<lewisVars, gearVars, materialVars, pageVars>>

\* One iteration of the hollow-shaft loop.
LoopIteration ==
    /\ pc = "loop"
    /\ LoopContinues(iter)
    /\ LET st == CandidateStress(diameter, args.inner_diameter, equivalent_moment)
       IN /\ evals' = evals + 1
          /\ lastEval' = diameter
          /\ IF st.tag = "raise"
             THEN /\ ret' = st
                  /\ pc' = "returned"
                  /\ UNCHANGED <<diameter, iter, converged>>
             ELSE IF StressOk(st.v, allowable_stress)
                  THEN /\ ret' = Ok(ToMillimetres(diameter))
                       /\ converged' = TRUE
                       /\ pc' = "returned"
                       /\ UNCHANGED <<diameter, iter>>
                  ELSE /\ diameter' = NextCandidate(diameter)
                       /\ iter' = iter + 1
                       /\ UNCHANGED <<ret, converged, pc>>
    /\ UNCHANGED <<call, args, allowable_stress, equivalent_moment, vres>>
    /\ UNCHANGED <<lewisVars, gearVars, materialVars, pageVars>>

\* The loop ends with its range exhausted; the function returns.
LoopExit ==
    /\ pc = "loop"
    /\ ~LoopContinues(iter)
    /\ ret' = Ok(ToMillimetres(diameter))
    /\ pc' = "returned"
    /\ UNCHANGED <<call, args, allowable_stress, equivalent_moment, diameter,
                   iter, evals, lastEval, converged, vres>>
    /\ UNCHANGED <<lewisVars, gearVars, materialVars, pageVars>>

\* The returned diameter is verified under the same loads and material.
VerifyReturned ==
    /\ pc = "returned"
    /\ call = "required"
    /\ ret.tag = "ok"
    /\ vres' = verify_shaft_diameter(ret.v, args.inner_diameter, args.torque,
                                     args.bending_moment, args.axial_force,
                                     args.yield_strength)
    /\ pc' = "verified"
    /\ UNCHANGED <<call, args, allowable_stress, equivalent_moment, diameter,
                   iter, evals, lastEval, converged, ret>>
    /\ UNCHANGED <<lewisVars, gearVars, materialVars, pageVars>>

\* verify_shaft_diameter called with a given outer diameter.
CallVerify ==
    /\ pc = "idle"
    /\ \E o \in Outers, i \in Inners, t \in Torques, b \in Moments,
          a \in Axials, y \in Yields :
         /\ args' = [torque |-> t, bending_moment |-> b, axial_force |-> a,
                     yield_strength |-> y, safety_factor |-> Zero,
                     inner_diameter |-> i, outer_diameter |-> o]
         /\ vres' = verify_shaft_diameter(o, i, t, b, a, y)
    /\ call' = "verify"
    /\ pc' = "verified"
    /\ UNCHANGED <<allowable_stress, equivalent_moment, diameter, iter, evals,
                   lastEval, converged, ret>>
    /\ UNCHANGED <<lewisVars, gearVars, materialVars, pageVars>>

\* The call is over; the next one starts from scratch.
Finish ==
    /\ pc \in {"returned", "verified"}
    /\ pc' = "idle"
    /\ call' = "none"
    /\ args' = NoArgs
    /\ allowable_stress' = Zero
    /\ equivalent_moment' = Zero
    /\ diameter' = Zero
    /\ iter' = 0
    /\ evals' = 0
    /\ lastEval' = Zero
    /\ converged' = FALSE
    /\ ret' = NoResult
    /\ vres' = NoVerify
    /\ UNCHANGED <<lewisVars, gearVars, materialVars, pageVars>>

Next ==
    \/ CallRequiredDiameter
    \/ LoopIteration
    \/ LoopExit
    \/ VerifyReturned
    \/ CallVerify
    \/ Finish

Spec == Init /\ [][Next]_vars


---------------------------------------------------------------------------
(* Claims about the shaft engine.                                          *)

Valid ==
    /\ FGe(args.torque, Zero)
    /\ FGe(args.bending_moment, Zero)
    /\ FGt(args.yield_strength, Zero)
    /\ FGe(args.safety_factor, FromInt(1))

Hollow == ~IsZero(args.inner_diameter)

\* C1: for valid loads, material and safety factor >= 1, axial force 0 and a
\* solid shaft, the diameter calculate_required_diameter returns verifies,
\* under the same loads and material, at a safety factor at least the
\* requested one.
C1_RoundTrip ==
    (/\ pc = "verified"
     /\ call = "required"
     /\ Valid
     /\ ~Hollow
     /\ IsZero(args.axial_force))
    => FGe(vres.safety_factor, args.safety_factor)

\* C2: in the hollow case the search returns, in millimetres, the first
\* candidate whose stress is within the allowable stress; when the starting
\* candidate already is, the returned outer diameter is the inner diameter
\* (given in mm) plus 10 mm.
C2_StartsTenAboveInner ==
    (/\ pc = "returned"
     /\ call = "required"
     /\ Valid
     /\ Hollow
     /\ converged
     /\ evals = 1)
    => ret = Ok(FAdd(args.inner_diameter, FromInt(10)))

\* C3: when the hollow search exhausts its iteration cap without a candidate
\* meeting the allowable stress, the diameter returned is the last candidate
\* whose stress was evaluated (converted as every returned diameter is).
C3_ReturnsLastTried ==
    (/\ pc = "returned"
     /\ call = "required"
     /\ Valid
     /\ Hollow
     /\ ret.tag = "ok"
     /\ ~converged)
    => ret = Ok(ToMillimetres(lastEval))

\* C4: the hollow search always terminates, after at most 100 stress
\* evaluations, whether or not a candidate meets the allowable stress: the
\* evaluations never exceed the cap, and every step of a search in progress
\* either returns or spends one more of them.
C4_SearchTerminates ==
    /\ [](evals <= MaxIter /\ (pc = "loop" => evals = iter))
    /\ [][pc = "loop" =>
            \/ pc' = "returned"
            \/ pc' = "loop" /\ evals' = evals + 1]_vars

\* The search ran out of candidates: 100 evaluations and none accepted.
C4_Witness ==
    /\ pc = "returned"
    /\ call = "required"
    /\ Hollow
    /\ evals = MaxIter
    /\ ~converged
    /\ ret.tag = "ok"

\* C5: with a zero allowable stress (yield strength 0) the call fails with an
\* error, solid or hollow; it never returns a diameter.
C5_ZeroStrengthRejected ==
    (/\ pc = "returned"
     /\ call = "required"
     /\ IsZero(args.yield_strength))
    => ret.tag = "raise"

\* C6: a non-positive outer diameter or safety factor is rejected with an
\* error before anything is computed: neither entry point produces a result
\* value for it.
C6_InvalidRejected ==
    /\ (/\ pc = "verified"
        /\ call = "verify"
        /\ FLe(args.outer_diameter, Zero))
       => vres.tag = "raise"
    /\ (/\ pc = "returned"
        /\ call = "required"
        /\ FLe(args.safety_factor, Zero))
       => ret.tag = "raise"

\* C7: verify_shaft_diameter does not raise; it returns the +infinity
\* sentinel whenever the equivalent stress is exactly zero, for any positive
\* yield strength, and yield_strength / equivalent_stress when the stress is
\* positive.
C7_InfiniteWhenUnstressed ==
    pc = "verified" =>
        /\ vres.tag = "ok"
        /\ (IsZero(vres.equivalent_stress) /\ FGt(args.yield_strength, Zero))
           => vres.safety_factor = Inf
        /\ FGt(vres.equivalent_stress, Zero)
           => vres.safety_factor = FDiv(args.yield_strength, vres.equivalent_stress)

\* An unstressed section of a material with positive yield strength.
C7_Witness ==
    /\ pc = "verified"
    /\ FGt(args.yield_strength, Zero)
    /\ IsZero(vres.equivalent_stress)
    /\ vres.safety_factor = Inf

\* The solid-shaft example: torque 1000 N.m, bending moment 500 N.m,
\* AISI 1045 Steel (yield strength 310 MPa), safety factor 2.0.
SolidExample ==
    /\ pc = "returned"
    /\ call = "required"
    /\ args.torque = FromInt(1000)
    /\ args.bending_moment = FromInt(500)
    /\ args.yield_strength = FromInt(310000000)
    /\ args.safety_factor = FromInt(2)
    /\ IsZero(args.inner_diameter)

\* lo <= x <= hi for bounds given in hundredths.
Within(x, lo100, hi100) ==
    /\ FLe(FDiv(FromInt(lo100), FromInt(100)), x)
    /\ FLe(x, FDiv(FromInt(hi100), FromInt(100)))

\* C19 as stated: in the example the equivalent moment is about 901.39 N.m,
\* the allowable stress 155 MPa and the returned diameter about 39.6 mm.
C19_ExampleAsStated ==
    SolidExample =>
        /\ Within(equivalent_moment, 90134, 90144)
        /\ allowable_stress = FromInt(155000000)
        /\ ret.tag = "ok"
        /\ Within(ret.v, 3955, 3965)

\* C19: in the example the equivalent moment is about 901.39 N.m, the
\* allowable stress 155 MPa and the returned diameter about 38.98 mm, the
\* cube root of 32 * 901.39 / (pi * 155e6) in millimetres.
C19_ExampleDiameter ==
    SolidExample =>
        /\ Within(equivalent_moment, 90134, 90144)
        /\ allowable_stress = FromInt(155000000)
        /\ ret.tag = "ok"
        /\ Within(ret.v, 3893, 3903)

\* The example has been computed.
C19_Witness ==
    /\ SolidExample
    /\ IsZero(args.axial_force)
    /\ ret.tag = "ok"
    /\ FGt(ret.v, FromInt(38))
    /\ FLt(ret.v, FromInt(39))

---------------------------------------------------------------------------
(* Gear engine: the Lewis form factor of show_tooth_strength_analysis.     *)

\* The keys of lewis_factors in increasing order: sorted(lewis_factors.keys()).
teeth_list ==
    <<12, 13, 14, 15, 16, 17, 18, 19, 20, 22, 24, 26, 28, 30, 34, 38, 43, 50,
      60, 75, 100, 150, 300>>

\* The values of lewis_factors, in thousandths, in the order of teeth_list.
LewisThousandths ==
    <<245, 261, 277, 290, 296, 303, 309, 314, 322, 331, 337, 346, 353, 359,
      371, 384, 397, 409, 422, 435, 447, 460, 472>>

\* The table with two digits of one entry transposed: 20 teeth |-> 0.232.
lewis_factors_typo ==
    [t \in {teeth_list[i] : i \in 1..Len(teeth_list)} |->
        LET i == CHOOSE j \in 1..Len(teeth_list) : teeth_list[j] = t
        IN FDiv(FromInt(IF t = 20 THEN 232 ELSE LewisThousandths[i]),
                FromInt(1000))]

\* The dictionary lewis_factors: tooth count |-> form factor.
lewis_factors ==
    [t \in {teeth_list[i] : i \in 1..Len(teeth_list)} |->
        LET i == CHOOSE j \in 1..Len(teeth_list) : teeth_list[j] = t
        IN FDiv(FromInt(LewisThousandths[i]), FromInt(1000))]

NoneResult == [tag |-> "None", v |-> Zero, exc |-> "none"]

\* The interpolation running the wrong way: from t2 down instead of from t1 up.
LinearInterpolationReversed(y1, y2, t1, t2, teeth) ==
    FAdd(y1, FDiv(FMul(FSub(y2, y1), FromInt(t2 - teeth)), FromInt(t2 - t1)))

\* y1 + (y2 - y1) * (teeth - t1) / (t2 - t1)
LinearInterpolation(y1, y2, t1, t2, teeth) ==
    FAdd(y1, FDiv(FMul(FSub(y2, y1), FromInt(teeth - t1)), FromInt(t2 - t1)))

\* The loop one bracket short, range(len(teeth_list) - 2): the last bracket
\* of the table is never tried.
RECURSIVE FirstBracketShort(_, _)
FirstBracketShort(teeth, i) ==
    IF i > Len(teeth_list) - 2 THEN NoneResult
    ELSE IF teeth_list[i] <= teeth /\ teeth <= teeth_list[i + 1]
         THEN LET t1 == teeth_list[i]
                  t2 == teeth_list[i + 1]
              IN Ok(LinearInterpolation(lewis_factors[t1], lewis_factors[t2],
                                        t1, t2, teeth))
         ELSE FirstBracketShort(teeth, i + 1)

\* for i in range(len(teeth_list) - 1): the first bracket that holds teeth;
\* a loop that finds none falls off the end of the function (None).
RECURSIVE FirstBracket(_, _)
FirstBracket(teeth, i) ==
    IF i > Len(teeth_list) - 1 THEN NoneResult
    ELSE IF teeth_list[i] <= teeth /\ teeth <= teeth_list[i + 1]
         THEN LET t1 == teeth_list[i]
                  t2 == teeth_list[i + 1]
              IN Ok(LinearInterpolation(lewis_factors[t1], lewis_factors[t2],
                                        t1, t2, teeth))
         ELSE FirstBracket(teeth, i + 1)

\* The two range tests dropped: every tooth count with no exact key goes to
\* the bracket search.
get_lewis_factor_unclamped(teeth) ==
    IF teeth \in DOMAIN lewis_factors
    THEN Ok(lewis_factors[teeth])
    ELSE FirstBracket(teeth, 1)

\* get_lewis_factor(teeth)
get_lewis_factor(teeth) ==
    IF teeth \in DOMAIN lewis_factors
    THEN Ok(lewis_factors[teeth])
    ELSE IF teeth < teeth_list[1] THEN Ok(lewis_factors[teeth_list[1]])
    ELSE IF teeth > teeth_list[Len(teeth_list)]
         THEN Ok(lewis_factors[teeth_list[Len(teeth_list)]])
         ELSE FirstBracket(teeth, 1)

\* Tooth counts tried: 1..MaxTeeth, below, inside and above the table.
MaxTeeth == 310

\* get_lewis_factor is called, at most twice in a row.
LewisCall ==
    /\ Len(lewisCalls) < 2
    /\ \E t \in 1..MaxTeeth :
         lewisCalls' = Append(lewisCalls,
                              [teeth |-> t, result |-> get_lewis_factor(t)])
    /\ UNCHANGED <<shaftVars, gearVars, materialVars, pageVars>>

\* The two results are dropped.
LewisForget ==
    /\ Len(lewisCalls) = 2
    /\ lewisCalls' = <<>>
    /\ UNCHANGED <<shaftVars, gearVars, materialVars, pageVars>>

NextLewis ==
    \/ LewisCall
    \/ LewisForget

SpecLewis == Init /\ [][NextLewis]_vars

InTable(t) == teeth_list[1] <= t /\ t <= teeth_list[Len(teeth_list)]

\* C9: for every tooth count that is a key of the Lewis table the function
\* returns exactly the table value; for 20 teeth that is 0.322.
C9_ExactAtKeys ==
    \A k \in 1..Len(lewisCalls) :
        LET c == lewisCalls[k]
        IN /\ c.teeth \in DOMAIN lewis_factors
              => c.result = Ok(lewis_factors[c.teeth])
           /\ c.teeth = 20
              => c.result = Ok(FDiv(FromInt(322), FromInt(1000)))

\* The function was called for 20 teeth and for the last key, 300.
C9_Witness ==
    /\ Len(lewisCalls) = 2
    /\ lewisCalls[1].teeth = 20
    /\ lewisCalls[1].result = Ok(FDiv(FromInt(322), FromInt(1000)))
    /\ lewisCalls[2].teeth = 300
    /\ lewisCalls[2].result.tag = "ok"

\* C10: over 12..300 the function is monotonically non-decreasing: for tooth
\* counts a <= b, keys or interpolated, its value at a is at most its value
\* at b.
C10_Monotone ==
    (/\ Len(lewisCalls) = 2
     /\ InTable(lewisCalls[1].teeth)
     /\ InTable(lewisCalls[2].teeth)
     /\ lewisCalls[1].teeth <= lewisCalls[2].teeth)
    => /\ lewisCalls[1].result.tag = "ok"
       /\ lewisCalls[2].result.tag = "ok"
       /\ FLe(lewisCalls[1].result.v, lewisCalls[2].result.v)

\* Two interpolated tooth counts of one bracket, 61 and 74, compared.
C10_Witness ==
    /\ Len(lewisCalls) = 2
    /\ lewisCalls[1].teeth = 61
    /\ lewisCalls[2].teeth = 74
    /\ FLt(lewisCalls[1].result.v, lewisCalls[2].result.v)

\* C11: outside the table's range the function clamps and does not raise:
\* for every tooth count below 12 it returns the value at 12, 0.245, and for
\* every tooth count above 300 the value at 300, 0.472.
C11_ClampedOutsideTable ==
    \A k \in 1..Len(lewisCalls) :
        LET c == lewisCalls[k]
        IN /\ c.teeth < 12 => c.result = Ok(FDiv(FromInt(245), FromInt(1000)))
           /\ c.teeth > 300 => c.result = Ok(FDiv(FromInt(472), FromInt(1000)))

\* One call below the table and one above it, both answered.
C11_Witness ==
    /\ Len(lewisCalls) = 2
    /\ lewisCalls[1].teeth = 11
    /\ lewisCalls[1].result = Ok(lewis_factors[12])
    /\ lewisCalls[2].teeth = 301
    /\ lewisCalls[2].result = Ok(lewis_factors[300])

\* C12: for every tooth count strictly between 12 and 300 that is not a key
\* of the table the function returns a value, never None: the linear
\* interpolation y1 + (y2 - y1) * (x - x1) / (x2 - x1) between the adjacent
\* keys x1 < x < x2, which lies between y1 and y2.
C12_InterpolatedBetweenNeighbours ==
    \A k \in 1..Len(lewisCalls) :
        LET x == lewisCalls[k].teeth
            res == lewisCalls[k].result
            keys == DOMAIN lewis_factors
        IN (12 < x /\ x < 300 /\ x \notin keys) =>
             LET x1 == CHOOSE a \in keys :
                          a < x /\ \A b \in keys : b < x => b <= a
                 x2 == CHOOSE a \in keys :
                          a > x /\ \A b \in keys : b > x => b >= a
                 y1 == lewis_factors[x1]
                 y2 == lewis_factors[x2]
             IN /\ res.tag = "ok"
                /\ res.v = FAdd(y1, FDiv(FMul(FSub(y2, y1), FromInt(x - x1)),
                                         FromInt(x2 - x1)))
                /\ FLe(y1, res.v)
                /\ FLe(res.v, y2)

\* 200 teeth, in the last and widest bracket (150, 300), strictly between
\* the two table values.
C12_Witness ==
    /\ Len(lewisCalls) >= 1
    /\ lewisCalls[1].teeth = 200
    /\ lewisCalls[1].result.tag = "ok"
    /\ FLt(lewis_factors[150], lewisCalls[1].result.v)
    /\ FLt(lewisCalls[1].result.v, lewis_factors[300])

---------------------------------------------------------------------------
(* Gear engine: gear_calculations.py                                       *)

\* 1e6, 5.56, 2.8 and 1.25 at the model's precision.
F1e6 == FromInt(1000000)
F556 == FDiv(FromInt(556), FromInt(100))
F28 == FDiv(FromInt(28), FromInt(10))
F125 == FDiv(FromInt(5), FromInt(4))
F15 == FDiv(FromInt(3), FromInt(2))

\* math.sin(math.radians(20))
Sin20 == [m |-> 22415, e |-> -16]

\* math.cos(math.radians(helix_angle)) for the helix angles of the model,
\* in degrees.
CosDeg ==
    [h \in {0, 20, 45, 180} |->
        CASE h = 0 -> FromInt(1)
          [] h = 20 -> [m |-> 30792, e |-> -15]
          [] h = 45 -> [m |-> 23170, e |-> -15]
          [] h = 180 -> FromInt(-1)]

\* The body of the try block of show_basic_gear_design: geometry, speeds and
\* torques of the pair, and the record stored as gear_params.
\* The torque with the power left in kilowatts.
PinionTorqueKilowatts(power, pinion_rpm) ==
    FDiv(FMul(power, FromInt(60)), FMul(FMul(FromInt(2), Pi), pinion_rpm))

\* pinion_torque = (power * 1000 * 60) / (2 * math.pi * pinion_rpm)
PinionTorque(power, pinion_rpm) ==
    FDiv(FMul(FMul(power, FromInt(1000)), FromInt(60)),
         FMul(FMul(FromInt(2), Pi), pinion_rpm))

BasicGearDesign(inp) ==
    IF inp.pinion_teeth = 0 \/ inp.gear_teeth = 0
    THEN [tag |-> "raise", exc |-> "ZeroDivisionError", params |-> NoGearParams]
    ELSE
    LET gear_ratio == FDiv(FromInt(inp.gear_teeth), FromInt(inp.pinion_teeth))
        gear_rpm == FDiv(inp.pinion_rpm, gear_ratio)
        pinion_pitch_diameter == FMul(inp.module, FromInt(inp.pinion_teeth))
        gear_pitch_diameter == FMul(inp.module, FromInt(inp.gear_teeth))
        center_distance ==
            FDiv(FAdd(pinion_pitch_diameter, gear_pitch_diameter), FromInt(2))
        omega == FMul(FMul(FromInt(2), Pi), inp.pinion_rpm)
    IN IF IsZero(omega)
       THEN [tag |-> "raise", exc |-> "ZeroDivisionError", params |-> NoGearParams]
       ELSE
       LET pinion_torque == PinionTorque(inp.power, inp.pinion_rpm)
           gear_torque == FMul(pinion_torque, gear_ratio)
           pitch_line_velocity ==
               FDiv(FMul(FMul(Pi, pinion_pitch_diameter), inp.pinion_rpm),
                    FromInt(60 * 1000))
       IN [tag |-> "ok", exc |-> "none",
           params |->
             [present |-> TRUE,
              gear_type |-> inp.gear_type,
              pinion_teeth |-> inp.pinion_teeth,
              gear_teeth |-> inp.gear_teeth,
              module |-> inp.module,
              helix_angle |-> inp.helix_angle,
              face_width |-> inp.face_width,
              power |-> inp.power,
              pinion_rpm |-> inp.pinion_rpm,
              gear_ratio |-> gear_ratio,
              gear_rpm |-> gear_rpm,
              pinion_pitch_diameter |-> pinion_pitch_diameter,
              gear_pitch_diameter |-> gear_pitch_diameter,
              center_distance |-> center_distance,
              pinion_torque |-> pinion_torque,
              gear_torque |-> gear_torque,
              pitch_line_velocity |-> pitch_line_velocity,
              pinion_material |-> inp.pinion_material,
              gear_material |-> inp.gear_material,
              pinion_props |-> get_material_properties(inp.pinion_material),
              gear_props |-> get_material_properties(inp.gear_material),
              safety_factor_bending |-> inp.safety_factor_bending,
              safety_factor_contact |-> inp.safety_factor_contact,
              service_factor |-> inp.service_factor,
              quality_factor |-> inp.quality_factor]]

\* A velocity factor with a curve of its own above 10 m/s.
DynamicFactorHighSpeed(v) ==
    IF FLe(v, FromInt(5)) THEN FromInt(1)
    ELSE IF FLe(v, FromInt(10)) THEN FDiv(FAdd(F556, FSqrt(v)), F556)
    ELSE FSqrt(FDiv(FAdd(F556, FSqrt(v)), F556))

\* Kv: 1.0 up to 5 m/s, (5.56 + sqrt(v)) / 5.56 above (both upper branches of
\* the source are the same expression).
DynamicFactor(v) ==
    IF FLe(v, FromInt(5)) THEN FromInt(1)
    ELSE FDiv(FAdd(F556, FSqrt(v)), F556)

\* Wt = params['pinion_torque'] * 2000 / params['pinion_pitch_diameter']
TransmittedLoad(params) ==
    IF IsZero(params.pinion_pitch_diameter) THEN Raise("ZeroDivisionError")
    ELSE Ok(FDiv(FMul(params.pinion_torque, FromInt(2000)),
                 params.pinion_pitch_diameter))

\* The Lewis factor in the numerator.
BendingStressInverted(Wt, params, Kv, lewis_factor) ==
    LET den == FMul(params.face_width, params.module)
    IN IF IsZero(den) THEN Raise("ZeroDivisionError")
       ELSE Ok(FDiv(FMul(FMul(FMul(Wt, params.service_factor), Kv), lewis_factor),
                    den))

\* (Wt * service_factor * Kv * Ks) / (face_width * module * lewis_factor),
\* with Ks = 1.0.
BendingStress(Wt, params, Kv, lewis_factor) ==
    LET den == FMul(FMul(params.face_width, params.module), lewis_factor)
    IN IF IsZero(den) THEN Raise("ZeroDivisionError")
       ELSE Ok(FDiv(FMul(FMul(FMul(Wt, params.service_factor), Kv), FromInt(1)),
                    den))

\* strength_mpa / (stress / 1e6): the quotient both gear analyses compute,
\* with no test of the divisor.
GearSafetyFactor(strength_mpa, stress) ==
    LET stress_mpa == FDiv(stress, F1e6)
    IN IF IsZero(stress_mpa) THEN Raise("ZeroDivisionError")
       ELSE Ok(FDiv(strength_mpa, stress_mpa))

BendingFailed(name) ==
    [tag |-> "raise", exc |-> name, results |-> NoBendingResults]

\* show_tooth_strength_analysis past its gear_params test: the record it
\* stores as bending_results, or the exception that ends it first.
ToothStrengthAnalysis(params) ==
    LET pinion_lewis_factor == get_lewis_factor(params.pinion_teeth)
        gear_lewis_factor == get_lewis_factor(params.gear_teeth)
        Kv == DynamicFactor(params.pitch_line_velocity)
        Wt == TransmittedLoad(params)
    IN IF Wt.tag = "raise" THEN BendingFailed(Wt.exc)
       ELSE IF pinion_lewis_factor.tag # "ok" \/ gear_lewis_factor.tag # "ok"
            THEN BendingFailed("TypeError")
       ELSE
       LET pinion_bending_stress ==
               BendingStress(Wt.v, params, Kv, pinion_lewis_factor.v)
           gear_bending_stress ==
               BendingStress(Wt.v, params, Kv, gear_lewis_factor.v)
       IN IF pinion_bending_stress.tag = "raise"
          THEN BendingFailed(pinion_bending_stress.exc)
          ELSE IF gear_bending_stress.tag = "raise"
               THEN BendingFailed(gear_bending_stress.exc)
          ELSE
          LET pinion_safety_bending ==
                  GearSafetyFactor(FDiv(params.pinion_props.yield_strength, F1e6),
                                   pinion_bending_stress.v)
              gear_safety_bending ==
                  GearSafetyFactor(FDiv(params.gear_props.yield_strength, F1e6),
                                   gear_bending_stress.v)
          IN IF pinion_safety_bending.tag = "raise"
             THEN BendingFailed(pinion_safety_bending.exc)
             ELSE IF gear_safety_bending.tag = "raise"
                  THEN BendingFailed(gear_safety_bending.exc)
             ELSE [tag |-> "ok", exc |-> "none",
                   results |->
                     [present |-> TRUE,
                      pinion_bending_stress |-> pinion_bending_stress.v,
                      gear_bending_stress |-> gear_bending_stress.v,
                      pinion_safety_bending |-> pinion_safety_bending.v,
                      gear_safety_bending |-> gear_safety_bending.v,
                      dynamic_factor |-> Kv]]

\* I = (cos(radians(helix_angle)) * sin(radians(20))) / 2
\*     * (gear_ratio / (gear_ratio + 1)), replaced by 0.1 when I <= 0.
GeometryFactor(helix_angle, gear_ratio) ==
    LET den == FAdd(gear_ratio, FromInt(1))
    IN IF IsZero(den) THEN Raise("ZeroDivisionError")
       ELSE LET raw == FMul(FDiv(FMul(CosDeg[helix_angle], Sin20), FromInt(2)),
                            FDiv(gear_ratio, den))
            IN Ok(IF FLe(raw, Zero) THEN F01 ELSE raw)

\* Cp = sqrt(1 / (pi * ((1 - nu1**2) / E1 + (1 - nu2**2) / E2))), for the
\* positive moduli of the material table.
ElasticCoefficient(pinion_props, gear_props) ==
    FSqrt(FDiv(FromInt(1),
               FMul(Pi,
                    FAdd(FDiv(FSub(FromInt(1), FSq(pinion_props.poisson_ratio)),
                              pinion_props.elastic_modulus),
                         FDiv(FSub(FromInt(1), FSq(gear_props.poisson_ratio)),
                              gear_props.elastic_modulus)))))

\* Cp * sqrt((Wt * service_factor * Kv)
\*           / (face_width * pinion_pitch_diameter * I))
ContactStress(Cp, Wt, params, Kv, geometry_factor) ==
    LET den == FMul(FMul(params.face_width, params.pinion_pitch_diameter),
                    geometry_factor)
    IN IF IsZero(den) THEN Raise("ZeroDivisionError")
       ELSE LET q == FDiv(FMul(FMul(Wt, params.service_factor), Kv), den)
            IN IF q.m < 0 THEN Raise("ValueError")
               ELSE Ok(FMul(Cp, FSqrt(q)))

\* The contact analysis computes Kv and Wt with its own copy of the code.
ContactDynamicFactor(v) ==
    IF FLe(v, FromInt(5)) THEN FromInt(1)
    ELSE IF FLe(v, FromInt(10)) THEN FDiv(FAdd(F556, FSqrt(v)), F556)
    ELSE FDiv(FAdd(F556, FSqrt(v)), F556)

ContactTransmittedLoad(params) ==
    IF IsZero(params.pinion_pitch_diameter) THEN Raise("ZeroDivisionError")
    ELSE Ok(FDiv(FMul(params.pinion_torque, FromInt(2000)),
                 params.pinion_pitch_diameter))

\* 2.8 * yield_strength / 1e6
ContactStrength(props) == FDiv(FMul(F28, props.yield_strength), F1e6)

ContactFailed(name) ==
    [tag |-> "raise", exc |-> name, results |-> NoContactResults]

\* show_contact_stress_analysis past its gear_params test: the record it
\* stores as contact_results, or the exception that ends it first.
ContactStressAnalysis(params) ==
    LET Wt == ContactTransmittedLoad(params)
        Kv == ContactDynamicFactor(params.pitch_line_velocity)
        geometry_factor == GeometryFactor(params.helix_angle, params.gear_ratio)
    IN IF Wt.tag = "raise" THEN ContactFailed(Wt.exc)
       ELSE IF geometry_factor.tag = "raise"
            THEN ContactFailed(geometry_factor.exc)
       ELSE
       LET Cp == ElasticCoefficient(params.pinion_props, params.gear_props)
           contact_stress == ContactStress(Cp, Wt.v, params, Kv, geometry_factor.v)
       IN IF contact_stress.tag = "raise" THEN ContactFailed(contact_stress.exc)
          ELSE
          LET pinion_safety_contact ==
                  GearSafetyFactor(ContactStrength(params.pinion_props),
                                   contact_stress.v)
              gear_safety_contact ==
                  GearSafetyFactor(ContactStrength(params.gear_props),
                                   contact_stress.v)
          IN IF pinion_safety_contact.tag = "raise"
             THEN ContactFailed(pinion_safety_contact.exc)
             ELSE IF gear_safety_contact.tag = "raise"
                  THEN ContactFailed(gear_safety_contact.exc)
             ELSE [tag |-> "ok", exc |-> "none",
                   results |->
                     [present |-> TRUE,
                      contact_stress |-> contact_stress.v,
                      pinion_safety_contact |-> pinion_safety_contact.v,
                      gear_safety_contact |-> gear_safety_contact.v,
                      elastic_coefficient |-> Cp]]

---------------------------------------------------------------------------
(* The gear page.  show_gear_design_page runs its tabs in order on every   *)
(* run of the script: the basic design (which stores gear_params when its  *)
(* button was pressed), the tooth strength analysis, the contact stress    *)
(* analysis and the summary.  An exception the basic design raises is      *)
(* caught and displayed; one raised by an analysis is not caught and ends  *)
(* the run there.                                                          *)

GearTypes == {"Spur Gear", "Helical Gear"}
PinionTeethSet == {20}
GearTeethSet == {40, 20}
Modules == {FromInt(3)}
HelixAngles == {20}
FaceWidths == {FromInt(50)}
PinionSpeeds == {FromInt(1500), FromInt(3000), FromInt(3600)}
PinionMaterials == {"AISI 1020 Steel"}
GearMaterials == {"AISI 1045 Steel"}

\* Power in kW: the number input of the page has min_value 0.1.
Powers == {FromInt(10), F01}

\* Power in a record handed to restore_calculation_backup, which takes any
\* record: a drive at standstill transmits none.
BackupPowers == {Zero, FromInt(10)}

GearInputs(powers) ==
    {[gear_type |-> g, pinion_teeth |-> zp, gear_teeth |-> zg, module |-> m,
      helix_angle |-> IF g = "Helical Gear" THEN h ELSE 0,
      face_width |-> b, power |-> p, pinion_rpm |-> n,
      pinion_material |-> pm, gear_material |-> gm,
      safety_factor_bending |-> FromInt(2), safety_factor_contact |-> F15,
      service_factor |-> F125, quality_factor |-> 9] :
        g \in GearTypes, zp \in PinionTeethSet, zg \in GearTeethSet,
        m \in Modules, h \in HelixAngles, b \in FaceWidths, p \in powers,
        n \in PinionSpeeds, pm \in PinionMaterials, gm \in GearMaterials}

\* What the session holds of the gear page.
GearSession ==
    [gear_params |-> gear_params, bending_results |-> bending_results,
     contact_results |-> contact_results, page_outcome |-> page_outcome]

\* The session after tabs 2 and 3 of one run of the page, for the
\* gear_params the run sees and the outcomes of the two analyses.
GearTabsOf(params, session, bending, contact) ==
    IF bending.tag = "raise"
    THEN [session EXCEPT !.gear_params = params, !.page_outcome = bending.exc]
    ELSE IF contact.tag = "raise"
         THEN [session EXCEPT !.gear_params = params,
                              !.bending_results = bending.results,
                              !.page_outcome = contact.exc]
         ELSE [gear_params |-> params,
               bending_results |-> bending.results,
               contact_results |-> contact.results,
               page_outcome |-> "ok"]

GearTabs(params, session) ==
    IF ~params.present
    THEN [session EXCEPT !.gear_params = params, !.page_outcome = "ok"]
    ELSE GearTabsOf(params, session, ToothStrengthAnalysis(params),
                    ContactStressAnalysis(params))

\* The gear_params a run with the button pressed sees: the new record, or
\* the stored one when the basic design raised.
PressedParams(design, session) ==
    IF design.tag = "ok" THEN design.params ELSE session.gear_params

\* The session after a run of the page with "Calculate Gear Parameters"
\* pressed and the widgets holding inp.
GearPress(inp, session) ==
    GearTabs(PressedParams(BasicGearDesign(inp), session), session)

AnalysisTabs(params) ==
    \E after \in {GearTabs(params, GearSession)} :
        /\ bending_results' = after.bending_results
        /\ contact_results' = after.contact_results
        /\ page_outcome' = after.page_outcome

\* A run of the page with "Calculate Gear Parameters" pressed.
CalculateGearParameters ==
    /\ \E inp \in GearInputs(Powers) :
         \E after \in {GearPress(inp, GearSession)} :
            /\ gear_params' = after.gear_params
            /\ bending_results' = after.bending_results
            /\ contact_results' = after.contact_results
            /\ page_outcome' = after.page_outcome
    /\ UNCHANGED <<shaftVars, lewisVars, materialVars, pageVars>>

\* A run of the page without the button: any other interaction.
RerunGearPage ==
    /\ AnalysisTabs(gear_params)
    /\ UNCHANGED gear_params
    /\ UNCHANGED <<shaftVars, lewisVars, materialVars, pageVars>>

\* restore_calculation_backup(backup_data) for a backup holding gear_params:
\* the record is written to the session as it is.
RestoreBackup ==
    /\ \E inp \in GearInputs(BackupPowers) :
         \E design \in {BasicGearDesign(inp)} :
            /\ design.tag = "ok"
            /\ gear_params' = design.params
    /\ page_outcome' = "stale"
    /\ UNCHANGED <<bending_results, contact_results>>
    /\ UNCHANGED <<shaftVars, lewisVars, materialVars, pageVars>>

NextGear ==
    \/ CalculateGearParameters
    \/ RerunGearPage
    \/ RestoreBackup

SpecGear == Init /\ [][NextGear]_vars

\* C8: every safety-factor computation, the gear bending and gear contact
\* ones included, yields the unbounded sentinel and no division fault when
\* the applied stress is zero: a page run over parameters with zero pinion
\* torque (zero transmitted load) ends normally, each analysis stores its
\* results, and the four safety factors are infinite.
C8_SentinelAtZeroStress ==
    (/\ gear_params.present
     /\ page_outcome # "stale"
     /\ IsZero(gear_params.pinion_torque))
    => /\ page_outcome = "ok"
       /\ ToothStrengthAnalysis(gear_params).tag = "ok"
       /\ ContactStressAnalysis(gear_params).tag = "ok"
       /\ bending_results.present
       /\ bending_results.pinion_safety_bending = Inf
       /\ bending_results.gear_safety_bending = Inf
       /\ contact_results.present
       /\ contact_results.pinion_safety_contact = Inf
       /\ contact_results.gear_safety_contact = Inf

---------------------------------------------------------------------------
(* Material lookups: get_material_properties and get_all_materials on the  *)
(* process-wide dictionary.                                                *)

\* Names looked up: every name of the table and two names that are not in
\* it (the lookup is case-sensitive).
LookupNames ==
    DOMAIN MATERIALS_DATABASE \cup {"Unobtainium", "aisi 1045 steel"}

\* The dictionary after database.setdefault(name, default) instead: an
\* unknown name is inserted with the default record.
DatabaseAfterSetdefault(database, material_name) ==
    [n \in DOMAIN database \cup {material_name} |->
        IF n \in DOMAIN database THEN database[n]
        ELSE database["AISI 1045 Steel"]]

\* The dictionary after database.get(name, default): get inserts nothing.
DatabaseAfterGet(database, material_name) == database

\* list(database.keys()): the names in insertion order.
ListNames(database) ==
    SelectSeq(get_all_materials, LAMBDA n : n \in DOMAIN database)

\* get_material_properties(name), at most twice in a row.
MaterialLookup ==
    /\ Len(matCalls) < 2
    /\ \E name \in LookupNames :
         /\ matCalls' = Append(matCalls,
                               [name |-> name,
                                result |-> MaterialGet(catalog, name)])
         /\ catalog' = DatabaseAfterGet(catalog, name)
    /\ UNCHANGED listing
    /\ UNCHANGED <<shaftVars, lewisVars, gearVars, pageVars>>

\* get_all_materials()
MaterialListing ==
    /\ listing = <<>>
    /\ listing' = ListNames(catalog)
    /\ UNCHANGED <<catalog, matCalls>>
    /\ UNCHANGED <<shaftVars, lewisVars, gearVars, pageVars>>

\* The results are dropped.
MaterialForget ==
    /\ Len(matCalls) = 2
    /\ matCalls' = <<>>
    /\ listing' = <<>>
    /\ UNCHANGED catalog
    /\ UNCHANGED <<shaftVars, lewisVars, gearVars, pageVars>>

NextMaterial ==
    \/ MaterialLookup
    \/ MaterialListing
    \/ MaterialForget

SpecMaterial == Init /\ [][NextMaterial]_vars

\* C13: a lookup never raises; for a name of the catalog it returns the
\* stored record, for any other name the record of 'AISI 1045 Steel', and
\* two lookups of the same unknown name return the identical record.
C13_FallbackRecord ==
    /\ \A k \in 1..Len(matCalls) :
         LET c == matCalls[k]
         IN /\ c.name \in DOMAIN MATERIALS_DATABASE
               => c.result = MATERIALS_DATABASE[c.name]
            /\ c.name \notin DOMAIN MATERIALS_DATABASE
               => c.result = MATERIALS_DATABASE["AISI 1045 Steel"]
    /\ (/\ Len(matCalls) = 2
        /\ matCalls[1].name = matCalls[2].name)
       => matCalls[1].result = matCalls[2].result

\* The same unknown name looked up twice: the default record both times.
C13_Witness ==
    /\ Len(matCalls) = 2
    /\ matCalls[1].name = "Unobtainium"
    /\ matCalls[2].name = "Unobtainium"
    /\ matCalls[1].result.yield_strength = FromInt(310000000)
    /\ matCalls[2].result = matCalls[1].result

PropertyNames ==
    {"yield_strength", "ultimate_strength", "elastic_modulus", "poisson_ratio",
     "density", "fatigue_strength", "hardness_hb", "category"}

\* The schema of one record: all 8 properties, strengths and modulus > 0,
\* 0 < poisson_ratio < 0.5.
SchemaOk(props) ==
    /\ DOMAIN props = PropertyNames
    /\ FGt(props.yield_strength, Zero)
    /\ FGt(props.ultimate_strength, Zero)
    /\ FGt(props.elastic_modulus, Zero)
    /\ FGt(props.fatigue_strength, Zero)
    /\ FGt(props.poisson_ratio, Zero)
    /\ FLt(props.poisson_ratio, FDiv(FromInt(1), FromInt(2)))

\* C15: every record of the catalog, and so every record a lookup returns,
\* satisfies the schema, and the catalog holds at least 14 named materials.
C15_CatalogSchema ==
    /\ Cardinality(DOMAIN catalog) >= 14
    /\ \A n \in DOMAIN catalog : SchemaOk(catalog[n])
    /\ \A k \in 1..Len(matCalls) : SchemaOk(matCalls[k].result)

\* The record with the largest Poisson ratio of the table, 0.34, and the one
\* with the smallest fatigue strength, 68 MPa, were looked up.
C15_Witness ==
    /\ Len(matCalls) = 2
    /\ matCalls[1].name = "Bronze C93200"
    /\ matCalls[1].result.poisson_ratio = FDiv(FromInt(34), FromInt(100))
    /\ matCalls[2].name = "Cast Iron ASTM A48 Class 30"
    /\ matCalls[2].result.fatigue_strength = FromInt(68000000)

---------------------------------------------------------------------------
(* The shaft page.  show_shaft_design_page runs its tabs in order on every *)
(* run of the script: the basic design, which computes and stores only     *)
(* when its button was pressed, then the stress analysis, the deflection   *)
(* analysis and the summary, which read st.session_state.shaft_params and  *)
(* display; they store nothing.                                            *)

\* The hollow-shaft loop of calculate_required_diameter from candidate
\* diameter and counter i to the return.
RECURSIVE HollowSearch(_, _, _, _, _)
HollowSearch(d, inner_diameter, eq_moment, allowable, i) ==
    IF ~LoopContinues(i) THEN Ok(ToMillimetres(d))
    ELSE LET st == CandidateStress(d, inner_diameter, eq_moment)
         IN IF st.tag = "raise" THEN st
            ELSE IF StressOk(st.v, allowable) THEN Ok(ToMillimetres(d))
            ELSE HollowSearch(NextCandidate(d), inner_diameter, eq_moment,
                              allowable, i + 1)

\* A criterion that folds the axial force into the equivalent moment.
calculate_required_diameter_axial(torque, bending_moment, axial_force, yield_strength, safety_factor, inner_diameter) ==
    LET al == AllowableStress(yield_strength, safety_factor)
        me == EquivalentMoment(torque, FAdd(bending_moment, axial_force))
    IN IF al.tag = "raise" THEN al
       ELSE IF IsZero(inner_diameter) THEN SolidDiameter(me, al.v)
            ELSE HollowSearch(InitialGuess(inner_diameter), inner_diameter,
                              me, al.v, 0)

\* calculate_required_diameter(torque, bending_moment, axial_force,
\* material_props, safety_factor, inner_diameter) as one call.
calculate_required_diameter(torque, bending_moment, axial_force, yield_strength, safety_factor, inner_diameter) ==
    LET al == AllowableStress(yield_strength, safety_factor)
    IN IF al.tag = "raise" THEN al
       ELSE IF SquareOverflows(bending_moment) \/ SquareOverflows(FMul(F075, torque))
            THEN Raise("OverflowError")
       ELSE IF IsZero(inner_diameter)
            THEN SolidDiameter(EquivalentMoment(torque, bending_moment), al.v)
            ELSE HollowSearch(InitialGuess(inner_diameter), inner_diameter,
                              EquivalentMoment(torque, bending_moment), al.v, 0)

\* A torque the number input accepts (it has no max_value) whose square is
\* beyond the largest float.
F1e208 == FSq(FSq(FSq(FSq(F1e13))))

\* Widget values the form can hold.  The inner diameter input exists only
\* for a hollow shaft and the outer diameter input only in verify mode.
ShaftForms ==
    {[torque |-> t, bending_moment |-> b, axial_force |-> Zero,
      shaft_length |-> FromInt(1000),
      hollow_shaft |-> h,
      inner_diameter |-> IF h THEN FromInt(20) ELSE Zero,
      design_approach |-> a,
      given_diameter |-> IF a = "Verify given diameter" THEN g ELSE FromInt(50),
      selected_material |-> get_all_materials[1],
      target_safety_factor |-> FromInt(2)] :
        t \in {Zero, FromInt(1000), F1e208}, b \in {Zero, FromInt(500)},
        h \in BOOLEAN,
        a \in {"Calculate required diameter", "Verify given diameter"},
        g \in {FromInt(50), FromInt(10)}}

\* The record the button handler stores as shaft_params.
ShaftParamsOf(form, material_props, outer) ==
    [present |-> TRUE, torque |-> form.torque,
     bending_moment |-> form.bending_moment,
     axial_force |-> form.axial_force, shaft_length |-> form.shaft_length,
     outer_diameter |-> outer, inner_diameter |-> form.inner_diameter,
     material |-> form.selected_material, material_props |-> material_props,
     target_safety_factor |-> form.target_safety_factor]

\* The stress analysis without its test for a stored record.
StressShownUnguarded(params) ==
    verify_shaft_diameter(params.outer_diameter, params.inner_diameter,
                          params.torque, params.bending_moment,
                          params.axial_force,
                          params.material_props.yield_strength)

\* show_stress_analysis: the stresses and the safety factor it displays for
\* the stored record, computed by its own copy of the section and stress
\* formulas.
StressShown(params) ==
    IF ~params.present THEN NoVerify
    ELSE
    LET outer_diameter == FDiv(params.outer_diameter, FromInt(1000))
        inner_diameter == FDiv(params.inner_diameter, FromInt(1000))
        solid == IsZero(inner_diameter)
        half == FDiv(outer_diameter, FromInt(2))
        area == IF solid
                THEN FMul(Pi, FSq(half))
                ELSE FMul(Pi, FSub(FSq(half), FSq(FDiv(inner_diameter, FromInt(2)))))
        I == IF solid
             THEN FDiv(FMul(Pi, FPow4(outer_diameter)), FromInt(64))
             ELSE FDiv(FMul(Pi, FSub(FPow4(outer_diameter), FPow4(inner_diameter))),
                       FromInt(64))
        J == IF solid
             THEN FDiv(FMul(Pi, FPow4(outer_diameter)), FromInt(32))
             ELSE FDiv(FMul(Pi, FSub(FPow4(outer_diameter), FPow4(inner_diameter))),
                       FromInt(32))
        axial_stress == IF FGt(area, Zero) THEN FDiv(params.axial_force, area) ELSE Zero
        bending_stress ==
            IF FGt(I, Zero) THEN FDiv(FMul(params.bending_moment, half), I) ELSE Zero
        shear_stress == IF FGt(J, Zero) THEN FDiv(FMul(params.torque, half), J) ELSE Zero
        normal_stress == FAdd(axial_stress, bending_stress)
        equivalent_stress ==
            FSqrt(FAdd(FSq(normal_stress), FMul(FromInt(3), FSq(shear_stress))))
    IN [tag |-> IF SquareOverflows(normal_stress) \/ SquareOverflows(shear_stress)
                THEN "raise" ELSE "ok",
        equivalent_stress |-> equivalent_stress,
        safety_factor |->
            IF FGt(equivalent_stress, Zero)
            THEN FDiv(params.material_props.yield_strength, equivalent_stress)
            ELSE Inf]

\* A summary that takes every section for a solid one.
SummaryShownSolid(params) ==
    IF ~params.present THEN NoVerify
    ELSE
    LET outer_diameter == FDiv(params.outer_diameter, FromInt(1000))
        inner_diameter == FDiv(params.inner_diameter, FromInt(1000))
        solid == TRUE
        half == FDiv(outer_diameter, FromInt(2))
        area == IF solid
                THEN FMul(Pi, FSq(half))
                ELSE FMul(Pi, FSub(FSq(half), FSq(FDiv(inner_diameter, FromInt(2)))))
        I == IF solid
             THEN FDiv(FMul(Pi, FPow4(outer_diameter)), FromInt(64))
             ELSE FDiv(FMul(Pi, FSub(FPow4(outer_diameter), FPow4(inner_diameter))),
                       FromInt(64))
        J == IF solid
             THEN FDiv(FMul(Pi, FPow4(outer_diameter)), FromInt(32))
             ELSE FDiv(FMul(Pi, FSub(FPow4(outer_diameter), FPow4(inner_diameter))),
                       FromInt(32))
        axial_stress == IF FGt(area, Zero) THEN FDiv(params.axial_force, area) ELSE Zero
        bending_stress ==
            IF FGt(I, Zero) THEN FDiv(FMul(params.bending_moment, half), I) ELSE Zero
        shear_stress == IF FGt(J, Zero) THEN FDiv(FMul(params.torque, half), J) ELSE Zero
        normal_stress == FAdd(axial_stress, bending_stress)
        equivalent_stress ==
            FSqrt(FAdd(FSq(normal_stress), FMul(FromInt(3), FSq(shear_stress))))
    IN [tag |-> IF SquareOverflows(normal_stress) \/ SquareOverflows(shear_stress)
                THEN "raise" ELSE "ok",
        equivalent_stress |-> equivalent_stress,
        safety_factor |->
            IF FGt(equivalent_stress, Zero)
            THEN FDiv(params.material_props.yield_strength, equivalent_stress)
            ELSE Inf]

\* show_results_summary: the safety factor it displays for the stored
\* record, computed by a third copy of the formulas.
SummaryShown(params) ==
    IF ~params.present THEN NoVerify
    ELSE
    LET outer_diameter == FDiv(params.outer_diameter, FromInt(1000))
        inner_diameter == FDiv(params.inner_diameter, FromInt(1000))
        solid == IsZero(inner_diameter)
        half == FDiv(outer_diameter, FromInt(2))
        area == IF solid
                THEN FMul(Pi, FSq(half))
                ELSE FMul(Pi, FSub(FSq(half), FSq(FDiv(inner_diameter, FromInt(2)))))
        I == IF solid
             THEN FDiv(FMul(Pi, FPow4(outer_diameter)), FromInt(64))
             ELSE FDiv(FMul(Pi, FSub(FPow4(outer_diameter), FPow4(inner_diameter))),
                       FromInt(64))
        J == IF solid
             THEN FDiv(FMul(Pi, FPow4(outer_diameter)), FromInt(32))
             ELSE FDiv(FMul(Pi, FSub(FPow4(outer_diameter), FPow4(inner_diameter))),
                       FromInt(32))
        axial_stress == IF FGt(area, Zero) THEN FDiv(params.axial_force, area) ELSE Zero
        bending_stress ==
            IF FGt(I, Zero) THEN FDiv(FMul(params.bending_moment, half), I) ELSE Zero
        shear_stress == IF FGt(J, Zero) THEN FDiv(FMul(params.torque, half), J) ELSE Zero
        normal_stress == FAdd(axial_stress, bending_stress)
        equivalent_stress ==
            FSqrt(FAdd(FSq(normal_stress), FMul(FromInt(3), FSq(shear_stress))))
    IN [tag |-> IF SquareOverflows(normal_stress) \/ SquareOverflows(shear_stress)
                THEN "raise" ELSE "ok",
        equivalent_stress |-> equivalent_stress,
        safety_factor |->
            IF FGt(equivalent_stress, Zero)
            THEN FDiv(params.material_props.yield_strength, equivalent_stress)
            ELSE Inf]

\* A widget of the form is changed: the script runs again without the
\* button, so the basic design stores nothing and the other tabs display
\* what the session holds.
EditShaftForm ==
    /\ \E form \in ShaftForms :
         /\ form # shaft_form
         /\ shaft_form' = form
         /\ catalog' = DatabaseAfterGet(catalog, form.selected_material)
    /\ stress_shown' = StressShown(shaft_params)
    /\ UNCHANGED <<shaft_params, shaft_diameter>>
    /\ UNCHANGED <<matCalls, listing>>
    /\ UNCHANGED <<shaftVars, lewisVars, gearVars>>

\* What the session holds of the shaft page.
ShaftSession ==
    [shaft_params |-> shaft_params, shaft_diameter |-> shaft_diameter,
     stress_shown |-> stress_shown]

\* A handler that adds the diameter to the one the session already holds.
ShaftPressAccumulating(form, database, session) ==
    LET material_props == MaterialGet(database, form.selected_material)
        d == IF session.shaft_diameter.tag = "ok"
             THEN Ok(FAdd(session.shaft_diameter.v, form.given_diameter))
             ELSE Ok(form.given_diameter)
        params == ShaftParamsOf(form, material_props, d.v)
    IN [shaft_params |-> params, shaft_diameter |-> d,
        stress_shown |-> StressShown(params)]

\* A handler that stores shaft_diameter before it calls
\* verify_shaft_diameter.
ShaftPressStoresFirst(form, database, session) ==
    LET material_props == MaterialGet(database, form.selected_material)
        params == ShaftParamsOf(form, material_props, form.given_diameter)
    IN IF StressShownUnguarded(params).tag = "raise"
       THEN [session EXCEPT !.shaft_diameter = Ok(form.given_diameter),
                            !.stress_shown = StressShown(session.shaft_params)]
       ELSE [shaft_params |-> params, shaft_diameter |-> Ok(form.given_diameter),
             stress_shown |-> StressShown(params)]

\* The diameter of the try block, or the exception raised before anything
\* is stored: by calculate_required_diameter in design mode, by
\* verify_shaft_diameter over the given diameter in verify mode.
PressedDiameter(form, material_props) ==
    IF form.design_approach = "Calculate required diameter"
    THEN calculate_required_diameter(
             form.torque, form.bending_moment, form.axial_force,
             material_props.yield_strength, form.target_safety_factor,
             form.inner_diameter)
    ELSE IF verify_shaft_diameter(
                form.given_diameter, form.inner_diameter, form.torque,
                form.bending_moment, form.axial_force,
                material_props.yield_strength).tag = "raise"
         THEN Raise("OverflowError")
         ELSE Ok(form.given_diameter)

\* The session after the try block of the handler, for the diameter d it
\* arrived at and the record it builds from the widgets: nothing is stored
\* when the calculation raised, else shaft_diameter and the record with d as
\* its outer_diameter; the stress analysis then shows the stored record.
ShaftPressOf(session, d, record) ==
    IF d.tag = "raise"
    THEN [session EXCEPT !.stress_shown = StressShown(session.shaft_params)]
    ELSE [shaft_params |-> [record EXCEPT !.outer_diameter = d.v],
          shaft_diameter |-> d,
          stress_shown |-> StressShown([record EXCEPT !.outer_diameter = d.v])]

\* The session after a run of the script with "Calculate Shaft Design"
\* pressed and the widgets holding form.  An exception of the calculation is
\* caught and displayed, and nothing is stored.
ShaftPress(form, database, session) ==
    ShaftPressOf(session,
                 PressedDiameter(form, MaterialGet(database, form.selected_material)),
                 ShaftParamsOf(form, MaterialGet(database, form.selected_material),
                               form.given_diameter))

\* "Calculate Shaft Design" is pressed: the script runs with the widget
\* values as they are.
CalculateShaftDesign ==
    /\ \E after \in {ShaftPress(shaft_form, catalog, ShaftSession)} :
          /\ shaft_params' = after.shaft_params
          /\ shaft_diameter' = after.shaft_diameter
          /\ stress_shown' = after.stress_shown
    /\ catalog' = DatabaseAfterGet(catalog, shaft_form.selected_material)
    /\ UNCHANGED shaft_form
    /\ UNCHANGED <<matCalls, listing>>
    /\ UNCHANGED <<shaftVars, lewisVars, gearVars>>

NextPage ==
    \/ EditShaftForm
    \/ CalculateShaftDesign

SpecPage == Init /\ [][NextPage]_vars

\* C16: stored results never outlive their inputs: whenever an input of the
\* form changes the stored record is discarded or recomputed, so in every
\* state a stored shaft_params was computed from the values the form holds
\* now and the stress analysis displays the results of those values.
C16_ResultsFollowInputs ==
    shaft_params.present =>
        /\ shaft_params.torque = shaft_form.torque
        /\ shaft_params.bending_moment = shaft_form.bending_moment
        /\ shaft_params.axial_force = shaft_form.axial_force
        /\ shaft_params.inner_diameter = shaft_form.inner_diameter
        /\ shaft_params.material = shaft_form.selected_material
        /\ shaft_params.target_safety_factor = shaft_form.target_safety_factor
        /\ shaft_form.design_approach = "Verify given diameter"
           => shaft_params.outer_diameter = shaft_form.given_diameter

\* C17: every stored shaft_params record has inner_diameter < outer_diameter,
\* whether the outer diameter came from calculate_required_diameter (zero
\* torque and zero bending moment included) or from the user.
C17_InnerBelowOuter ==
    shaft_params.present =>
        FLt(shaft_params.inner_diameter, shaft_params.outer_diameter)

---------------------------------------------------------------------------
(* Claims about the gear analyses.                                         *)

\* C18: the geometry factor I that enters the contact-stress formula is
\* floored at 0.1: for every helix angle in [0, 45] degrees and every gear
\* ratio > 0 of a pair the contact analysis has run on, I >= 0.1.
C18_GeometryFactorFloor ==
    (/\ gear_params.present
     /\ page_outcome = "ok"
     /\ contact_results.present
     /\ gear_params.helix_angle \in 0..45
     /\ FGt(gear_params.gear_ratio, Zero))
    => LET geometry_factor ==
               GeometryFactor(gear_params.helix_angle, gear_params.gear_ratio)
       IN /\ geometry_factor.tag = "ok"
          /\ FGe(geometry_factor.v, F01)

\* The gear example: 20 and 40 teeth, module 3 mm, 10 kW at 1500 rpm.
GearExample ==
    /\ gear_params.pinion_teeth = 20
    /\ gear_params.gear_teeth = 40
    /\ gear_params.module = FromInt(3)
    /\ gear_params.power = FromInt(10)
    /\ gear_params.pinion_rpm = FromInt(1500)

\* C20: the stored gear parameters satisfy gear_ratio = gear_teeth /
\* pinion_teeth, gear_rpm = pinion_rpm / gear_ratio, pitch diameter = module *
\* teeth, center_distance = (d1 + d2) / 2, pinion_torque = power[W] * 60 /
\* (2 pi pinion_rpm), gear_torque = pinion_torque * gear_ratio; in the example
\* the ratio is 2, the diameters 60 and 120 mm, the center distance 90 mm, the
\* pinion torque about 63.66 N.m and the gear torque about 127.32 N.m.
C20_BasicGearGeometry ==
    (gear_params.present /\ page_outcome = "ok") =>
        /\ gear_params.gear_ratio =
               FDiv(FromInt(gear_params.gear_teeth), FromInt(gear_params.pinion_teeth))
        /\ gear_params.gear_rpm = FDiv(gear_params.pinion_rpm, gear_params.gear_ratio)
        /\ gear_params.pinion_pitch_diameter =
               FMul(gear_params.module, FromInt(gear_params.pinion_teeth))
        /\ gear_params.gear_pitch_diameter =
               FMul(gear_params.module, FromInt(gear_params.gear_teeth))
        /\ gear_params.center_distance =
               FDiv(FAdd(gear_params.pinion_pitch_diameter,
                         gear_params.gear_pitch_diameter), FromInt(2))
        /\ gear_params.pinion_torque =
               FDiv(FMul(FMul(gear_params.power, FromInt(1000)), FromInt(60)),
                    FMul(FMul(FromInt(2), Pi), gear_params.pinion_rpm))
        /\ gear_params.gear_torque =
               FMul(gear_params.pinion_torque, gear_params.gear_ratio)
        /\ GearExample =>
               /\ gear_params.gear_ratio = FromInt(2)
               /\ gear_params.pinion_pitch_diameter = FromInt(60)
               /\ gear_params.gear_pitch_diameter = FromInt(120)
               /\ gear_params.center_distance = FromInt(90)
               /\ Within(gear_params.pinion_torque, 6361, 6371)
               /\ Within(gear_params.gear_torque, 12727, 12737)

\* The example has been calculated.
C20_Witness ==
    /\ gear_params.present
    /\ page_outcome = "ok"
    /\ GearExample
    /\ FGt(gear_params.pinion_torque, FromInt(63))
    /\ FLt(gear_params.gear_torque, FromInt(128))

\* Kv as the specification gives it.
ExpectedKv(v) ==
    IF FLe(v, FromInt(5)) THEN FromInt(1)
    ELSE FDiv(FAdd(F556, FSqrt(v)), F556)

\* C21: Kv is exactly 1.0 for a pitch-line velocity of at most 5 m/s and
\* (5.56 + sqrt(v)) / 5.56 above it, on both sides of 10 m/s; the bending and
\* the contact analysis compute the same Kv and the same transmitted load
\* Wt = 2000 * pinion_torque / pinion_pitch_diameter from the stored
\* gear parameters.
C21_DynamicFactorAndLoad ==
    (/\ gear_params.present
     /\ page_outcome = "ok"
     /\ bending_results.present
     /\ contact_results.present)
    => LET v == gear_params.pitch_line_velocity
           Wt == Ok(FDiv(FMul(FromInt(2000), gear_params.pinion_torque),
                         gear_params.pinion_pitch_diameter))
       IN /\ bending_results.dynamic_factor = ExpectedKv(v)
          /\ DynamicFactor(v) = ExpectedKv(v)
          /\ ContactDynamicFactor(v) = DynamicFactor(v)
          /\ FLe(v, FromInt(5)) => bending_results.dynamic_factor = FromInt(1)
          /\ TransmittedLoad(gear_params) = Wt
          /\ ContactTransmittedLoad(gear_params) = Wt

\* Both analyses have run over parameters with a velocity above 10 m/s.
C21_Witness ==
    /\ gear_params.present
    /\ page_outcome = "ok"
    /\ bending_results.present
    /\ contact_results.present
    /\ FGt(gear_params.pitch_line_velocity, FromInt(10))
    /\ FGt(bending_results.dynamic_factor, FromInt(1))

---------------------------------------------------------------------------
(* Claims about the two pages as stages of a session.                      *)

\* C22: each calculation is idempotent and deterministic: a second press of
\* "Calculate" with the same inputs, on the shaft page or on the gear page,
\* leaves the session as the first press left it; the stored diameter and
\* the displayed safety factor, the values of calculate_required_diameter
\* and of the verify computation, are the same after both presses.
C22_PressIdempotent ==
    /\ \A form \in ShaftForms :
          \E once \in {ShaftPress(form, catalog, ShaftSession)} :
             /\ ShaftPress(form, DatabaseAfterGet(catalog, form.selected_material),
                           once) = once
             /\ ShaftPress(form, catalog, ShaftSession) = once
    /\ \A inp \in GearInputs(Powers) :
          \E once \in {GearPress(inp, GearSession)} :
             GearPress(inp, once) = once

\* The session is the one a press with the hollow-shaft form it holds has
\* left, and pressing again leaves it.
C22_Witness ==
    /\ shaft_params.present
    /\ shaft_form.hollow_shaft
    /\ shaft_form.design_approach = "Calculate required diameter"
    /\ shaft_diameter.tag = "ok"
    /\ shaft_params.inner_diameter = shaft_form.inner_diameter
    /\ ShaftPress(shaft_form, catalog, ShaftSession) = ShaftSession

---------------------------------------------------------------------------
(* Claims about the shaft functions as single calls.                       *)

\* Bending moments whose stress leaves the axial stress of the forces in
\* Axials visible in a 15-bit significand.  (The 53 bits of a Python float
\* resolve it beside every moment in Moments.)
ResolvedBesideAxial(bending_moment) == FLe(bending_moment, FromInt(500))

\* The longest hollow-shaft search that is run again as one call.
MaxRepeated == 12

C24_ReducesToBending ==
    (/\ pc = "verified"
     /\ call = "verify"
     /\ IsZero(args.torque)
     /\ IsZero(args.axial_force)
     /\ FGe(args.bending_moment, Zero)
     /\ FGe(args.outer_diameter, Zero))
    => \E bending_stress \in {SectionBendingStress(args.outer_diameter,
                                   args.inner_diameter, args.bending_moment)} :
          /\ vres.equivalent_stress = bending_stress
          /\ FGt(bending_stress, Zero)
             => vres.safety_factor = FDiv(args.yield_strength, bending_stress)

\* A solid section was verified under bending alone.
C24_Witness ==
    /\ pc = "verified"
    /\ call = "verify"
    /\ IsZero(args.torque)
    /\ IsZero(args.axial_force)
    /\ args.bending_moment = FromInt(500)
    /\ args.outer_diameter = FromInt(50)
    /\ IsZero(args.inner_diameter)
    /\ FGt(args.yield_strength, Zero)
    /\ FGt(vres.equivalent_stress, Zero)
    /\ vres.safety_factor # Inf

\* The default form with a torque whose square overflows.
F1e208Form == [DefaultShaftForm EXCEPT !.torque = F1e208]

\* C25: the stages after the basic design compute and store nothing unless
\* the basic design has stored its record.  On the gear page no
\* bending_results or contact_results exist without gear_params, a run
\* with gear_params absent leaves the session as it was, and a stored
\* gear_params is never removed.  On the shaft page the stress analysis
\* shows nothing for an absent shaft_params, and a press stores a record
\* that a further press does not remove.
C25_PipelineOrder ==
    /\ [](~gear_params.present
            => ~bending_results.present /\ ~contact_results.present)
    /\ [][(~gear_params.present /\ ~gear_params'.present)
            => UNCHANGED <<gear_params, bending_results, contact_results>>]_vars
    /\ [][gear_params.present => gear_params'.present]_vars
    /\ [](~shaft_params.present => stress_shown = NoVerify)
    /\ [](/\ StressShown(NoShaftParams) = NoVerify
          /\ \A form \in ShaftForms :
                \E after \in {ShaftPress(form, catalog, ShaftSession)} :
                   /\ after.shaft_params.present <=> after.stress_shown # NoVerify
                   /\ after.shaft_params.present
                      => ShaftPress(F1e208Form, catalog,
                                    after).shaft_params = after.shaft_params)

\* The gear page has run with no gear_params stored: its stages warned.
C25_Witness ==
    /\ ~gear_params.present
    /\ page_outcome = "ok"
    /\ ~bending_results.present
    /\ ~contact_results.present

\* Wt * service_factor * Kv * Ks / (face_width * module * lewis_factor) for
\* the member with the given number of teeth.
MemberBendingStress(params, teeth) ==
    FDiv(FMul(FMul(FMul(FDiv(FMul(params.pinion_torque, FromInt(2000)),
                             params.pinion_pitch_diameter),
                        params.service_factor),
                   ExpectedKv(params.pitch_line_velocity)), FromInt(1)),
         FMul(FMul(params.face_width, params.module),
              get_lewis_factor(teeth).v))

\* The Lewis factor does not decrease with the number of teeth, from the
\* smallest count the page accepts.
LewisNonDecreasing ==
    \A teeth \in 12..(MaxTeeth - 1) :
        FLe(get_lewis_factor(teeth).v, get_lewis_factor(teeth + 1).v)

\* C26: the bending stress of each member is Wt * service_factor * Kv * Ks /
\* (face_width * module * lewis_factor) with that member's own Lewis factor;
\* so with pinion_teeth <= gear_teeth the pinion bending stress is at least
\* the gear bending stress, and the two are equal for equal tooth counts.
C26_PinionStressedMore ==
    (/\ gear_params.present
     /\ page_outcome = "ok"
     /\ bending_results.present)
    => /\ LewisNonDecreasing
       /\ bending_results.pinion_bending_stress =
             MemberBendingStress(gear_params, gear_params.pinion_teeth)
       /\ bending_results.gear_bending_stress =
             MemberBendingStress(gear_params, gear_params.gear_teeth)
       /\ gear_params.pinion_teeth <= gear_params.gear_teeth
          => FGe(bending_results.pinion_bending_stress,
                 bending_results.gear_bending_stress)
       /\ gear_params.pinion_teeth = gear_params.gear_teeth
          => bending_results.pinion_bending_stress =
                bending_results.gear_bending_stress

\* A pinion of 20 teeth on a gear of 40 carries the larger bending stress.
C26_Witness ==
    /\ gear_params.present
    /\ page_outcome = "ok"
    /\ bending_results.present
    /\ gear_params.pinion_teeth = 20
    /\ gear_params.gear_teeth = 40
    /\ FGt(bending_results.pinion_bending_stress,
           bending_results.gear_bending_stress)

\* C27: verify_shaft_diameter returns an infinite safety factor only when
\* torque, bending_moment and axial_force are all zero; under any non-zero
\* load, a hollow section with inner_diameter >= outer_diameter included,
\* the safety factor it returns is finite.
C27_InfiniteOnlyUnloaded ==
    (/\ pc = "verified"
     /\ call = "verify"
     /\ vres.tag = "ok"
     /\ vres.safety_factor = Inf)
    => /\ IsZero(args.torque)
       /\ IsZero(args.bending_moment)
       /\ IsZero(args.axial_force)

\* C28: after any sequence of "Calculate Shaft Design" presses in either
\* mode the session's shaft_diameter equals shaft_params['outer_diameter']
\* whenever both exist, and a press whose calculation raises an exception
\* leaves shaft_diameter and shaft_params as they were before the press.
C28_DiameterMatchesParams ==
    /\ []((shaft_params.present /\ shaft_diameter.tag # "none")
          => shaft_diameter = Ok(shaft_params.outer_diameter))
    /\ [][(/\ shaft_form' = shaft_form
            /\ PressedDiameter(shaft_form,
                               MaterialGet(catalog, shaft_form.selected_material)
                              ).tag = "raise")
           => UNCHANGED <<shaft_diameter, shaft_params>>]_vars

\* A record is stored and the form holds a torque with which the press
\* raises OverflowError.
C28_Witness ==
    /\ shaft_params.present
    /\ shaft_diameter = Ok(shaft_params.outer_diameter)
    /\ shaft_form.torque = F1e208
    /\ shaft_form.design_approach = "Verify given diameter"
    /\ PressedDiameter(shaft_form,
                       MaterialGet(catalog, shaft_form.selected_material)
                      ).tag = "raise"

\* C29: the safety factor the stress analysis shows and the one the results
\* summary shows for the stored shaft_params equal the value
\* verify_shaft_diameter returns for the same diameters, loads and material.
C29_ThreeCopiesAgree ==
    shaft_params.present
    => \E verified \in {verify_shaft_diameter(
                            shaft_params.outer_diameter, shaft_params.inner_diameter,
                            shaft_params.torque, shaft_params.bending_moment,
                            shaft_params.axial_force,
                            shaft_params.material_props.yield_strength)} :
          /\ stress_shown = verified
          /\ SummaryShown(shaft_params) = verified

\* A hollow shaft is stored and its stress analysis shows a finite safety
\* factor.
C29_Witness ==
    /\ shaft_params.present
    /\ ~IsZero(shaft_params.inner_diameter)
    /\ FGt(shaft_params.outer_diameter, shaft_params.inner_diameter)
    /\ stress_shown.tag = "ok"
    /\ stress_shown.safety_factor # Inf
    /\ SummaryShown(shaft_params).safety_factor = stress_shown.safety_factor

\* C30: after every run of the gear page, bending_results or contact_results
\* is present only beside gear_params, and each present result record is the
\* one its analysis computes from the gear_params stored now.
C30_ResultsOfStoredParams ==
    page_outcome # "stale"
    => /\ (bending_results.present \/ contact_results.present)
          => gear_params.present
       /\ bending_results.present
          => bending_results = ToothStrengthAnalysis(gear_params).results
       /\ contact_results.present
          => contact_results = ContactStressAnalysis(gear_params).results

====
